---------------------------- MODULE Spec2Model ----------------------------
(***************************************************************************)
(* The message-bus recorder of scripts/web_recorder.py: the recorder       *)
(* singleton, the recording_status global, the CSV log, the MQTT client    *)
(* with its network-loop thread, and the start/stop API handlers with the  *)
(* background connect threads they spawn.                                  *)
(*                                                                         *)
(* Threads: Flask serves each request on its own thread, start_recording   *)
(* spawns one daemon thread per accepted start, and the MQTT client runs   *)
(* its callbacks (on_connect, on_message, on_disconnect) on one network    *)
(* loop thread.                                                            *)
(*                                                                         *)
(* The serial plotter of scripts/PLOT_GUI.py is a second program: its      *)
(* worker thread owns the serial handle, and the window's handlers send    *)
(* command lines through it.  Its variables stand still in the             *)
(* specifications of the recorder, and the recorder's in SpecSerial.       *)
(***************************************************************************)
EXTENDS Integers, Sequences, FiniteSets, TLC

(* ----------------------------- bounds --------------------------------- *)

\* Spec, the session-level specification: accepted start requests (each with
\* its background thread) in flight at once, and readings ingested.
MaxStarts == 2
SessionReadings == 1

\* SpecIngest, the ingestion-level specification: readings ingested and the
\* last value of the wall clock.
MaxReadings == 2
MaxTime == 2

\* SpecQuery, the query-level specification: readings ingested, and the
\* largest limit parameter of a query.
QueryReadings == 1
MaxLimit == 2

\* SpecData, the data-level specification: rows in the log.
MaxRows == 2

\* SpecControl, the actuator-level specification: commands handed to the
\* message bus.
MaxCommands == 1

\* SpecSerial, the specification of the serial plotter: command lines
\* written to the device.
MaxWrites == 2

\* SpecBuffer: the readings the device sends, enough to fill the buffer of
\* the serial worker and overflow it.
MaxBuffered == 502

\* SpecDecode: the readings the device sends among its other lines.
MaxSerialLines == 2

\* SpecPlot: the readings the device sends.
MaxPlotted == 2

(* ------------------------- values and frames -------------------------- *)

\* Python's None, for last_reading and start_time.
None == [none |-> TRUE]

\* The values datetime.now() can return.  It is the local wall clock, which
\* can be set back, so a reading of it is any of them.
Times(last) == 1..last

\* Spec is about the session, not about timestamps: there the clock stands
\* still at its first instant.
SessionTimes == {t \in Times(MaxTime) : \A u \in Times(MaxTime) : t <= u}

\* datetime.isoformat(): one text per instant.
isoformat(t) == [iso |-> t]

\* The fieldnames of the CSV log, in column order.
fieldnames ==
    << "timestamp_received", "timestamp_device", "device",
       "temperature", "humidity", "pressure",
       "cooler_running", "cooler_runtime", "total_elapsed_time",
       "cooler_ever_started", "manual_override" >>

CsvColumns == { fieldnames[i] : i \in 1..Len(fieldnames) }

\* csv.DictWriter.writeheader(): the row that maps every column to its name.
HeaderRow == [c \in CsvColumns |-> c]

\* A frame is the payload text, abstracted to its JSON syntax class and, for
\* an object, its members (JSON values written as their text).
FullFrame ==
    [syntax |-> "object",
     data |-> [timestamp |-> "1000", device |-> "dev1", temperature |-> "21.5",
               humidity |-> "40", pressure |-> "1013.2"]]

\* An acknowledgement object: well-formed, no measurement member.
AckFrame ==
    [syntax |-> "object", data |-> [status |-> "ok"]]

\* Truncated JSON such as {"temperature": .
TruncatedFrame ==
    [syntax |-> "truncated", data |-> [text |-> "{\"temperature\":"]]

\* Well-formed JSON that is not an object, such as 5 or [1, 2].
ScalarFrame ==
    [syntax |-> "scalar", data |-> [text |-> "5"]]

Frames == {FullFrame, AckFrame, TruncatedFrame, ScalarFrame}

\* json.loads: raises JSONDecodeError on malformed text, else returns the value.
json_loads(frame) ==
    IF frame.syntax = "truncated"
        THEN [ok |-> FALSE, mapping |-> FALSE, value |-> frame.data]
        ELSE [ok |-> TRUE, mapping |-> frame.syntax = "object", value |-> frame.data]

\* dict.get(key, default)
get(d, key, default) == IF key \in DOMAIN d THEN d[key] ELSE default

\* {**data, 'timestamp_received': ts}: the members of data, the receive
\* timestamp last (it wins over a member of the same name).
reading_of(data, ts) ==
    [k \in (DOMAIN data) \cup {"timestamp_received"} |->
        IF k = "timestamp_received" THEN ts ELSE data[k]]

\* A faulty csv_data: a measurement that is absent is written as 0.
csv_data_zero(data, ts) ==
    [c \in CsvColumns |->
        CASE c = "timestamp_received" -> ts
          [] c = "timestamp_device"   -> get(data, "timestamp", "")
          [] c = "device"             -> get(data, "device", "unknown")
          [] OTHER                    -> get(data, c, "0")]

\* A faulty csv_data: the device column is not taken from the frame.
csv_data_unknown_device(data, ts) ==
    [c \in CsvColumns |->
        CASE c = "timestamp_received" -> ts
          [] c = "timestamp_device"   -> get(data, "timestamp", "")
          [] c = "device"             -> "unknown"
          [] OTHER                    -> get(data, c, "")]

\* The csv_data dictionary on_message builds for one reading.
csv_data(data, ts) ==
    [c \in CsvColumns |->
        CASE c = "timestamp_received" -> ts
          [] c = "timestamp_device"   -> get(data, "timestamp", "")
          [] c = "device"             -> get(data, "device", "unknown")
          [] OTHER                    -> get(data, c, "")]

(* ------------------------------ state --------------------------------- *)

VARIABLES
    recorder_instance,  \* the global recorder exists (not None)
    is_recording,       \* recording_status["is_recording"]
    start_time,         \* recording_status["start_time"]
    is_connected,       \* recorder.is_connected
    last_reading,       \* recorder.last_reading
    total_readings,     \* recorder.total_readings
    csv_exists,         \* DATA_FILE exists
    csv_file,           \* the lines of DATA_FILE
    sock,               \* MQTT client connection: closed, sent, refused, up
    loop_running,       \* the client's network loop thread runs
    subscribed,         \* the broker holds the subscription to MQTT_TOPIC
    msgpc,              \* the loop thread inside on_message: idle (not
                        \* there), stored (past line 135) or raised
    cur,                \* the frame on_message is working on
    starts,             \* accepted start requests in flight, by position
    response,           \* the last API call and its response so far
    link,               \* the connection since the last API call:
                        \* steady, lost, or recovered (lost and up again)
    published           \* the payloads handed to client.publish(), in order

\* The serial plotter of scripts/PLOT_GUI.py, a program of its own.
VARIABLES
    serial_connection,  \* worker.serial_connection: none, open or closed
    handles,            \* how many handles on the serial port are open
    running,            \* worker.running
    wire,               \* the command lines written to the device, in order
    command_result,     \* what the last send_at_command returned
    error_occurred,     \* the message of the last error_occurred signal
    wpc,                \* where the worker thread is in run
    gui,                \* where the window's thread is, and in which handler
    data_buffer,        \* worker.data_buffer
    data_received,      \* the data_received signals not yet delivered
    status_received,    \* the message of the last status_received signal
    time_data,          \* the window's four plot series
    temperature_data,
    humidity_data,
    pressure_data,
    gui_start_time      \* the window's start_time: None, or the instant set

\* What the decoder of the worker and the plots of the window hold.
plot_vars ==
    << data_buffer, data_received, status_received, time_data,
       temperature_data, humidity_data, pressure_data, gui_start_time >>

gui_vars ==
    << serial_connection, handles, running, wire, command_result,
       error_occurred, wpc, gui, plot_vars >>

recorder_vars ==
    << recorder_instance, is_recording, start_time, is_connected, last_reading,
       total_readings, csv_exists, csv_file, sock, loop_running, subscribed,
       msgpc, cur, starts, response, link, published >>

vars == << recorder_vars, gui_vars >>

\* An accepted start request is a handler (sleeping in time.sleep(2), or
\* returned) and the start_bg thread it spawned (connecting in
\* client.connect(), started = past loop_start(), done, failed).  Requests
\* are interchangeable, so the state counts them by position; a request whose
\* handler has returned and whose thread has ended is gone.
Positions ==
    { <<"sleeping", "connecting">>, <<"sleeping", "started">>,
      <<"sleeping", "done">>, <<"sleeping", "failed">>,
      <<"returned", "connecting">>, <<"returned", "started">> }

HandlerStates == {"sleeping", "returned"}

ThreadStates == {"connecting", "started", "done", "failed"}

RECURSIVE Sum(_, _)
Sum(f, S) == IF S = {} THEN 0 ELSE LET x == CHOOSE y \in S : TRUE
                                   IN f[x] + Sum(f, S \ {x})

\* Accepted start requests not yet gone.
InFlight == Sum(starts, Positions)

\* start_bg threads inside connect_and_start.
Running == Sum(starts, {p \in Positions : p[2] \in {"connecting", "started"}})

\* One request moves from position p to position q; a position outside
\* Positions stands for "not there" (not yet accepted, or gone).
Move(p, q) ==
    /\ p \in Positions => starts[p] > 0
    /\ starts' = [x \in Positions |->
                    starts[x] - (IF x = p THEN 1 ELSE 0) + (IF x = q THEN 1 ELSE 0)]

Gone == <<"returned", "ended">>

NoFrame == [data |-> [none |-> TRUE], receive_time |-> 0]

Response(op, code, message) == [op |-> op, code |-> code, message |-> message]

NoResponse == Response("", 0, "")

\* An accepted start that has not answered yet (its handler sleeps).
Pending == Response("start", 0, "")

StartRejected == Response("start", 400, "Recording is already active")

StartSucceeded == Response("start", 200, "Recording started successfully")

StopSucceeded == Response("stop", 200, "Recording stopped successfully")

StopRejected == Response("stop", 400, "Recording is not active")

(* ------------------------------- Init --------------------------------- *)

\* A faulty setup_csv_file: the file is opened for writing whether it exists
\* or not.
setup_csv_file_truncates ==
    /\ csv_exists' = TRUE
    /\ csv_file' = <<HeaderRow>>

\* A faulty setup_csv_file: the header is written to an existing file too.
setup_csv_file_always_header ==
    /\ csv_exists' = TRUE
    /\ csv_file' = Append(csv_file, HeaderRow)

\* setup_csv_file: create DATA_FILE with the header when it does not exist,
\* leave it as it is when it does.
setup_csv_file ==
    /\ csv_exists' = TRUE
    /\ csv_file' = IF csv_exists THEN csv_file ELSE <<HeaderRow>>

\* SensorDataRecorder(): a new client, the CSV file set up, the fields reset.
SensorDataRecorder ==
    /\ setup_csv_file
    /\ is_connected' = FALSE
    /\ last_reading' = None
    /\ total_readings' = 0
    /\ sock' = "closed"
    /\ loop_running' = FALSE
    /\ subscribed' = FALSE

\* A row left in the log by an earlier run of the recorder.
OldRow == csv_data(FullFrame.data, isoformat(0))

\* The window's thread between two handlers.
Idle == [at |-> "idle", in |-> "", command |-> ""]

\* SerialWorker() and worker.start(): running, no serial handle yet, nothing
\* sent or signalled, the thread at the head of the loop of run.
SerialWorker ==
    /\ serial_connection = "none"
    /\ handles = 0
    /\ running = TRUE
    /\ wire = << >>
    /\ command_result = "none"
    /\ error_occurred = ""
    /\ wpc = "test"
    /\ gui = Idle
    /\ data_buffer = << >>
    /\ data_received = << >>
    /\ status_received = ""
    /\ time_data = << >>
    /\ temperature_data = << >>
    /\ humidity_data = << >>
    /\ pressure_data = << >>
    /\ gui_start_time = None

\* main() builds the recorder before serving, over a log of an earlier run
\* (one of logs) or a new one; served as an imported Flask application the
\* module starts with recorder_instance = None, and DATA_FILE is there or not.
Boot(logs) ==
    /\ recorder_instance \in BOOLEAN
    /\ is_recording = FALSE
    /\ start_time = None
    /\ is_connected = FALSE
    /\ last_reading = None
    /\ total_readings = 0
    /\ csv_exists \in (IF recorder_instance THEN {TRUE} ELSE BOOLEAN)
    /\ csv_file \in (IF csv_exists THEN logs ELSE {<<>>})
    /\ sock = "closed"
    /\ loop_running = FALSE
    /\ subscribed = FALSE
    /\ msgpc = "idle"
    /\ cur = NoFrame
    /\ starts = [x \in Positions |-> 0]
    /\ response = NoResponse
    /\ link = "steady"
    /\ published = << >>
    /\ SerialWorker

\* The program starts over a new log, or over one that holds a row.
Init == Boot({<<HeaderRow>>, <<HeaderRow, OldRow>>})

(* --------------------------- API: start ------------------------------- *)

\* POST /api/start while recording_status["is_recording"] is true: 400.
start_rejected ==
    /\ is_recording
    /\ response' = StartRejected
    /\ link' = "steady"
    /\ UNCHANGED << recorder_instance, is_recording, start_time, is_connected,
                    last_reading, total_readings, csv_exists, csv_file, sock,
                    loop_running, subscribed, msgpc, cur, starts >>
    /\ UNCHANGED << published, gui_vars >>

\* A faulty start_accepted: the is_recording check is missing.
start_accepted_unchecked ==
    /\ IF recorder_instance
          THEN UNCHANGED << is_connected, last_reading, total_readings, csv_exists,
                            csv_file, sock, loop_running, subscribed >>
          ELSE SensorDataRecorder
    /\ recorder_instance' = TRUE
    /\ Move(Gone, <<"sleeping", "connecting">>)
    /\ response' = Pending
    /\ link' = "steady"
    /\ UNCHANGED << is_recording, start_time, msgpc, cur >>
    /\ UNCHANGED << published, gui_vars >>

\* A faulty start_accepted: every start builds a new recorder.
start_accepted_rebuilds ==
    /\ ~is_recording
    /\ SensorDataRecorder
    /\ recorder_instance' = TRUE
    /\ Move(Gone, <<"sleeping", "connecting">>)
    /\ response' = Pending
    /\ link' = "steady"
    /\ UNCHANGED << is_recording, start_time, msgpc, cur >>
    /\ UNCHANGED << published, gui_vars >>

\* POST /api/start otherwise: build the recorder if there is none, spawn the
\* start_bg thread, and sleep two seconds before answering.
start_accepted ==
    /\ ~is_recording
    /\ IF recorder_instance
          THEN UNCHANGED << is_connected, last_reading, total_readings, csv_exists,
                            csv_file, sock, loop_running, subscribed >>
          ELSE SensorDataRecorder
    /\ recorder_instance' = TRUE
    /\ Move(Gone, <<"sleeping", "connecting">>)
    /\ response' = Pending
    /\ link' = "steady"
    /\ UNCHANGED << is_recording, start_time, msgpc, cur >>
    /\ UNCHANGED << published, gui_vars >>

\* The sleep is over: start_recording answers 200 whatever the thread (in
\* state th) did.
start_returns(th) ==
    /\ Move(<<"sleeping", th>>, <<"returned", IF th \in {"done", "failed"} THEN "ended" ELSE th>>)
    /\ response' = StartSucceeded
    /\ UNCHANGED << recorder_instance, is_recording, start_time, is_connected,
                    last_reading, total_readings, csv_exists, csv_file, sock,
                    loop_running, subscribed, msgpc, cur, link >>
    /\ UNCHANGED << published, gui_vars >>

\* A start request arrives (either outcome).
start_recording == start_rejected \/ start_accepted

(* ---------------------- connect_and_start thread ---------------------- *)

\* Where a thread that ends leaves its request: with the handler (h) still
\* sleeping the request stays, with its result; else it is gone.
Ended(h, result) == IF h = "sleeping" THEN <<h, result>> ELSE Gone

\* client.connect() returns: any earlier socket is dropped without a callback,
\* the TCP connection is up and CONNECT is sent; then loop_start().
connect_succeeds(h) ==
    /\ Move(<<h, "connecting">>, <<h, "started">>)
    /\ sock' = "sent"
    /\ subscribed' = FALSE
    /\ loop_running' = TRUE
    /\ UNCHANGED << recorder_instance, is_recording, start_time, is_connected,
                    last_reading, total_readings, csv_exists, csv_file, msgpc, cur,
                    response, link >>
    /\ UNCHANGED << published, gui_vars >>

\* A faulty mark_recording: is_connected is an alias of is_recording.
mark_recording_connected(h, t) ==
    /\ Move(<<h, "started">>, Ended(h, "done"))
    /\ is_recording' = TRUE
    /\ is_connected' = TRUE
    /\ start_time' = isoformat(t)
    /\ UNCHANGED << recorder_instance, last_reading, total_readings, csv_exists,
                    csv_file, sock, loop_running, subscribed, msgpc, cur, response,
                    link >>
    /\ UNCHANGED << published, gui_vars >>

\* recording_status["is_recording"] = True; ["start_time"] = now (t).
mark_recording(h, t) ==
    /\ Move(<<h, "started">>, Ended(h, "done"))
    /\ is_recording' = TRUE
    /\ start_time' = isoformat(t)
    /\ UNCHANGED << recorder_instance, is_connected, last_reading, total_readings,
                    csv_exists, csv_file, sock, loop_running, subscribed, msgpc, cur,
                    response, link >>
    /\ UNCHANGED << published, gui_vars >>

\* A faulty connect_fails: the failure leaves the user's intent alone.
connect_fails_keeps_intent(h) ==
    /\ Move(<<h, "connecting">>, Ended(h, "failed"))
    /\ sock' = "closed"
    /\ subscribed' = FALSE
    /\ UNCHANGED << recorder_instance, is_recording, start_time, is_connected,
                    last_reading, total_readings, csv_exists, csv_file, loop_running,
                    msgpc, cur, response, link >>
    /\ UNCHANGED << published, gui_vars >>

\* client.connect() raises: the except clause clears is_recording and
\* re-raises, which ends the thread.
connect_fails(h) ==
    /\ Move(<<h, "connecting">>, Ended(h, "failed"))
    /\ sock' = "closed"
    /\ subscribed' = FALSE
    /\ is_recording' = FALSE
    /\ UNCHANGED << recorder_instance, start_time, is_connected, last_reading,
                    total_readings, csv_exists, csv_file, loop_running, msgpc, cur,
                    response, link >>
    /\ UNCHANGED << published, gui_vars >>

connect_and_start(h, t) ==
    \/ connect_succeeds(h)
    \/ mark_recording(h, t)
    \/ connect_fails(h)

(* ---------------------------- API: stop ------------------------------- *)

\* client.disconnect() with the loop thread already stopped: DISCONNECT is
\* written by the caller and the socket closed; the client library may or
\* may not get to run the on_disconnect callback (cb).
client_disconnect(cb) ==
    /\ sock' = "closed"
    /\ subscribed' = FALSE
    /\ is_connected' = IF cb /\ sock # "closed" THEN FALSE ELSE is_connected

\* A faulty recorder_stop_recording: the client is never disconnected.
recorder_stop_recording_connected(cb) ==
    /\ msgpc = "idle"
    /\ loop_running' = FALSE
    /\ UNCHANGED << sock, subscribed, is_connected >>
    /\ is_recording' = FALSE

\* SensorDataRecorder.stop_recording: loop_stop() joins the loop thread (so
\* it waits for a callback in progress), disconnect(), is_recording = False.
\* Neither client call raises (they return an error code), so the except
\* clause is not a way out of this method.
recorder_stop_recording(cb) ==
    /\ msgpc = "idle"
    /\ loop_running' = FALSE
    /\ client_disconnect(cb)
    /\ is_recording' = FALSE

\* POST /api/stop while recording: 200.
stop_accepted ==
    /\ is_recording
    /\ IF recorder_instance
          THEN \E cb \in BOOLEAN : recorder_stop_recording(cb)
          ELSE UNCHANGED << loop_running, sock, subscribed, is_connected, is_recording >>
    /\ response' = StopSucceeded
    /\ link' = "steady"
    /\ UNCHANGED << recorder_instance, start_time, last_reading, total_readings,
                    csv_exists, csv_file, msgpc, cur, starts >>
    /\ UNCHANGED << published, gui_vars >>

\* POST /api/stop while not recording: 400.
stop_rejected ==
    /\ ~is_recording
    /\ response' = StopRejected
    /\ link' = "steady"
    /\ UNCHANGED << recorder_instance, is_recording, start_time, is_connected,
                    last_reading, total_readings, csv_exists, csv_file, sock,
                    loop_running, subscribed, msgpc, cur, starts >>
    /\ UNCHANGED << published, gui_vars >>

stop_recording == stop_accepted \/ stop_rejected

(* ----------------------- network loop thread -------------------------- *)

\* A faulty on_connect: the topic is not subscribed in the callback.
on_connect_without_subscribe(rc) ==
    /\ is_connected' = (rc = 0)
    /\ subscribed' = subscribed

\* on_connect(rc): success marks the recorder connected and subscribes to
\* MQTT_TOPIC; a refusal marks it not connected.
on_connect(rc) ==
    /\ is_connected' = (rc = 0)
    /\ subscribed' = (rc = 0)

\* The broker answers CONNECT; the loop thread runs on_connect.
connack(rc) ==
    /\ loop_running
    /\ msgpc = "idle"
    /\ sock = "sent"
    /\ sock' = IF rc = 0 THEN "up" ELSE "refused"
    /\ on_connect(rc)
    /\ link' = IF rc = 0 /\ link = "lost" THEN "recovered" ELSE link
    /\ UNCHANGED << recorder_instance, is_recording, start_time, last_reading,
                    total_readings, csv_exists, csv_file, loop_running, msgpc, cur,
                    starts, response >>
    /\ UNCHANGED << published, gui_vars >>

\* A faulty on_disconnect: a lost connection ends the recording.
on_disconnect_stops ==
    /\ is_connected' = FALSE
    /\ is_recording' = FALSE
    /\ UNCHANGED << start_time, last_reading, total_readings >>

\* on_disconnect: the recorder is no longer connected.
on_disconnect ==
    /\ is_connected' = FALSE
    /\ UNCHANGED << is_recording, start_time, last_reading, total_readings >>

\* The connection is lost (broker or network); the loop thread runs
\* on_disconnect.
connection_lost ==
    /\ loop_running
    /\ msgpc = "idle"
    /\ sock # "closed"
    /\ sock' = "closed"
    /\ subscribed' = FALSE
    /\ on_disconnect
    /\ link' = "lost"
    /\ UNCHANGED << recorder_instance, csv_exists, csv_file, loop_running, msgpc,
                    cur, starts, response >>
    /\ UNCHANGED << published, gui_vars >>

\* The loop thread started by loop_start() reconnects by itself after a loss:
\* the TCP connection is up again and CONNECT is sent.
loop_reconnect ==
    /\ loop_running
    /\ msgpc = "idle"
    /\ sock = "closed"
    /\ sock' = "sent"
    /\ UNCHANGED << recorder_instance, is_recording, start_time, is_connected,
                    last_reading, total_readings, csv_exists, csv_file, loop_running,
                    subscribed, msgpc, cur, starts, response, link >>
    /\ UNCHANGED << published, gui_vars >>

\* A faulty write_to_csv: the row is written before the rows of the file.
write_to_csv_first(row, io_ok) ==
    /\ csv_exists' = (csv_exists \/ io_ok)
    /\ csv_file' = IF io_ok THEN <<HeaderRow, row>> \o Tail(csv_file) ELSE csv_file

\* write_to_csv: append one row to DATA_FILE (open(..., 'a') creates the file
\* when it is missing); an I/O error (io_ok false) is caught and printed.
write_to_csv(row, io_ok) ==
    /\ csv_exists' = (csv_exists \/ io_ok)
    /\ csv_file' = IF io_ok THEN Append(csv_file, row) ELSE csv_file

\* A faulty on_message_begin: a frame that does not decode is kept as the
\* last reading all the same.
on_message_begin_stores_raw(frame, t) ==
    LET parsed == json_loads(frame) IN
    /\ last_reading' = IF parsed.mapping THEN reading_of(parsed.value, isoformat(t))
                                          ELSE parsed.value
    /\ cur' = [data |-> parsed.value, receive_time |-> IF parsed.ok /\ parsed.mapping THEN t ELSE 0]
    /\ msgpc' = IF parsed.ok /\ parsed.mapping THEN "stored" ELSE "raised"

\* A faulty on_message_begin: the members of the frame are stored first and
\* the receive timestamp is left for later.
on_message_begin_unstamped(frame, t) ==
    LET parsed == json_loads(frame) IN
    IF parsed.ok /\ parsed.mapping
        THEN /\ last_reading' = parsed.value
             /\ cur' = [data |-> parsed.value, receive_time |-> t]
             /\ msgpc' = "stored"
        ELSE /\ last_reading' = last_reading
             /\ cur' = [data |-> parsed.value, receive_time |-> 0]
             /\ msgpc' = "raised"

\* on_message up to line 135: decode, parse, stamp with datetime.now() (t),
\* store last_reading.  A frame that does not parse (JSONDecodeError at line
\* 125), or parses to something that is no mapping (TypeError at line 132),
\* raises before anything is stored: the thread is in an except clause.
on_message_begin(frame, t) ==
    LET parsed == json_loads(frame) IN
    IF parsed.ok /\ parsed.mapping
        THEN /\ last_reading' = reading_of(parsed.value, isoformat(t))
             /\ cur' = [data |-> parsed.value, receive_time |-> t]
             /\ msgpc' = "stored"
        ELSE /\ last_reading' = last_reading
             /\ cur' = [data |-> parsed.value, receive_time |-> 0]
             /\ msgpc' = "raised"

\* A faulty on_message_end: the reading is counted again by the writer.
on_message_end_counts_twice(io_ok) ==
    /\ total_readings' = total_readings + (IF io_ok THEN 2 ELSE 1)
    /\ write_to_csv(csv_data(cur.data, isoformat(cur.receive_time)), io_ok)
    /\ msgpc' = "idle"
    /\ cur' = NoFrame

\* A faulty on_message_end: only a reading that was written is counted.
on_message_end_counts_written(io_ok) ==
    /\ total_readings' = total_readings + (IF io_ok THEN 1 ELSE 0)
    /\ write_to_csv(csv_data(cur.data, isoformat(cur.receive_time)), io_ok)
    /\ msgpc' = "idle"
    /\ cur' = NoFrame

\* on_message from line 136: count the reading and write its row.
on_message_end(io_ok) ==
    /\ total_readings' = total_readings + 1
    /\ write_to_csv(csv_data(cur.data, isoformat(cur.receive_time)), io_ok)
    /\ msgpc' = "idle"
    /\ cur' = NoFrame

\* The except clauses of on_message (lines 161-165): print and return.
on_message_except ==
    /\ msgpc' = "idle"
    /\ cur' = NoFrame

\* The broker delivers a frame of the subscribed topic.
message_arrives(frame, t) ==
    /\ loop_running
    /\ msgpc = "idle"
    /\ sock = "up"
    /\ subscribed
    /\ on_message_begin(frame, t)
    /\ UNCHANGED << recorder_instance, is_recording, start_time, is_connected,
                    total_readings, csv_exists, csv_file, sock, loop_running,
                    subscribed, starts, response, link >>
    /\ UNCHANGED << published, gui_vars >>

\* The loop thread goes on inside on_message.
message_done(io_ok) ==
    /\ msgpc = "stored"
    /\ on_message_end(io_ok)
    /\ UNCHANGED << recorder_instance, is_recording, start_time, is_connected,
                    last_reading, sock, loop_running, subscribed, starts, response,
                    link >>
    /\ UNCHANGED << published, gui_vars >>

(* --------------------------- API: queries ----------------------------- *)

\* jsonify of a successful query: status "success" and the data.
Result(op, data) == [op |-> op, code |-> 200, data |-> data]

\* jsonify of the answer of /api/data: the rows and their number.
DataResult(data, total) ==
    [op |-> "data", code |-> 200, data |-> data, total |-> total]

\* A query parameter that is not given (request.args.get returns None).
NoArg == None

\* The limit parameter: absent, or an integer (type=int).
Limits == {NoArg} \cup {[int |-> n] : n \in -1..MaxLimit}

\* "if limit:" is false for an absent limit and for 0.
truthy(limit) == limit # NoArg /\ limit.int # 0

\* The start_date and end_date parameters: absent, or the text of an instant.
DateArgs == {NoArg} \cup {isoformat(t) : t \in Times(MaxTime)}

\* A parameter text that is neither an integer nor a timestamp, such as abc.
Malformed == [text |-> "abc"]

\* The limit and the date parameters as the query string carries them.
RawLimits == Limits \cup {Malformed}

RawDates == DateArgs \cup {Malformed}

\* request.args.get('limit', type=int): the default, None, when int() of
\* the text raises ValueError.
args_get_int(arg) == IF arg = Malformed THEN None ELSE arg

\* Lines 411-415: the answer when the handler raises.
DataFailed == Response("data", 500, "Failed to retrieve data")

\* pd.to_datetime / the comparison of a timestamp with a date parameter:
\* the instant a text stands for.
to_datetime(text) == text.iso

\* One line of the file read under a header line: a mapping from the names
\* in the header to the fields of the line.
read_row(header, line) ==
    [k \in {header[c] : c \in CsvColumns} |->
        line[CHOOSE c \in CsvColumns : header[c] = k]]

\* pd.read_csv and csv.DictReader: the first line is the header, every
\* other line is a row, in file order.
read_csv(file) ==
    [i \in 1..(Len(file) - 1) |-> read_row(file[1], file[i + 1])]

\* df.tail(limit) and data[-limit:]: the last limit rows; for a negative
\* limit, all rows but the first -limit.
tail(rows, limit) ==
    LET n == Len(rows)
        from == IF limit.int >= 0 THEN n - limit.int + 1 ELSE 1 - limit.int
    IN  SubSeq(rows, IF from < 1 THEN 1 ELSE from, n)

\* Lines 384-395: the rows in the date range when a date is given, then the
\* tail when the limit is truthy.
filter_and_limit(rows, limit, start_date, end_date) ==
    LET Kept(row) ==
            /\ start_date = NoArg \/ to_datetime(row.timestamp_received) >= to_datetime(start_date)
            /\ end_date = NoArg \/ to_datetime(row.timestamp_received) <= to_datetime(end_date)
        dated == SelectSeq(rows, Kept)
    IN  IF truthy(limit) THEN tail(dated, limit) ELSE dated

\* Lines 371-382, taken when pd.read_csv raises: all rows, then the tail
\* when a limit that is not 0 is given; the dates are not looked at.
fallback_reader(rows, limit) ==
    IF truthy(limit) THEN tail(rows, limit) ELSE rows

\* GET /api/data: no file gives no rows; pd.read_csv raises on an empty file
\* and can raise on any other (pandas_ok false); the comparison of the
\* timestamps with a date text that is no timestamp raises, and the handler
\* answers 500.
get_data(limit, start_date, end_date, pandas_ok) ==
    /\ response' =
          IF ~csv_exists THEN DataResult(<< >>, 0)
          ELSE IF pandas_ok /\ csv_file # << >>
              THEN IF Malformed \in {start_date, end_date} THEN DataFailed
                   ELSE LET data == filter_and_limit(read_csv(csv_file),
                                                     args_get_int(limit),
                                                     start_date, end_date)
                        IN  DataResult(data, Len(data))
              ELSE LET data == fallback_reader(read_csv(csv_file),
                                               args_get_int(limit))
                   IN  DataResult(data, Len(data))
    /\ link' = "steady"
    /\ UNCHANGED << recorder_instance, is_recording, start_time, is_connected,
                    last_reading, total_readings, csv_exists, csv_file, sock,
                    loop_running, subscribed, msgpc, cur, starts >>
    /\ UNCHANGED << published, gui_vars >>

\* SensorDataRecorder.get_status, or the default of the handler when there
\* is no recorder.
recorder_get_status ==
    IF recorder_instance
        THEN [is_recording |-> is_recording, is_connected |-> is_connected,
              start_time |-> start_time, total_readings |-> total_readings,
              last_reading |-> last_reading]
        ELSE [is_recording |-> FALSE, is_connected |-> FALSE,
              start_time |-> None, total_readings |-> 0, last_reading |-> None]

\* GET /api/status
get_status ==
    /\ response' = Result("status", recorder_get_status)
    /\ link' = "steady"
    /\ UNCHANGED << recorder_instance, is_recording, start_time, is_connected,
                    last_reading, total_readings, csv_exists, csv_file, sock,
                    loop_running, subscribed, msgpc, cur, starts >>
    /\ UNCHANGED << published, gui_vars >>

\* A faulty get_latest_reading: it hands the reading out and forgets it.
get_latest_reading_consumes ==
    /\ response' = Result("latest", IF recorder_instance /\ last_reading # None
                                        THEN last_reading ELSE None)
    /\ last_reading' = None
    /\ link' = "steady"
    /\ UNCHANGED << recorder_instance, is_recording, start_time, is_connected,
                    total_readings, csv_exists, csv_file, sock,
                    loop_running, subscribed, msgpc, cur, starts >>
    /\ UNCHANGED << published, gui_vars >>

\* GET /api/data/latest: the last reading of the recorder, None without one.
get_latest_reading ==
    /\ response' = Result("latest", IF recorder_instance /\ last_reading # None
                                        THEN last_reading ELSE None)
    /\ link' = "steady"
    /\ UNCHANGED << recorder_instance, is_recording, start_time, is_connected,
                    last_reading, total_readings, csv_exists, csv_file, sock,
                    loop_running, subscribed, msgpc, cur, starts >>
    /\ UNCHANGED << published, gui_vars >>

\* float('nan'), which jsonify writes as NaN.
NaN == [nan |-> TRUE]

\* float(text) of a measurement, in tenths.
float(text) ==
    CASE text = "21.5"   -> 215
      [] text = "40"     -> 400
      [] text = "1013.2" -> 10132
      [] text = "0"      -> 0

\* The fields get_statistics summarises.
StatFields == {"temperature", "pressure", "altitude"}

\* {"min": None, "max": None, "avg": None}
NoSamples == [min |-> None, max |-> None, avg |-> None]

\* The column names of a file: the fields of its first line.
columns(file) ==
    IF file = << >> THEN {} ELSE {file[1][c] : c \in CsvColumns}

\* The numeric samples of a field: float of every value that is not blank.
samples(rows, field) ==
    LET filled == SelectSeq(rows, LAMBDA row : row[field] # "")
    IN  [i \in 1..Len(filled) |-> float(filled[i][field])]

\* min, max and sum / len of a sequence of samples that is not empty.
summary(s) ==
    LET idx == 1..Len(s)
    IN  [min |-> [float |-> CHOOSE x \in {s[i] : i \in idx} : \A i \in idx : x <= s[i]],
         max |-> [float |-> CHOOSE x \in {s[i] : i \in idx} : \A i \in idx : x >= s[i]],
         avg |-> [float |-> Sum([i \in idx |-> s[i]], idx) \div Len(s)]]

\* Lines 458-472, for one field: None when the frame has no such column,
\* else float() of Series.min, max and mean, which skip blanks and are NaN
\* when nothing is left.
pandas_column(file, field) ==
    IF field \notin columns(file) THEN NoSamples
    ELSE LET s == samples(read_csv(file), field)
         IN  IF s = << >> THEN [min |-> NaN, max |-> NaN, avg |-> NaN]
                          ELSE summary(s)

\* Lines 489-503, for one field: None when the list of samples is empty.
fallback_column(rows, field) ==
    LET s == samples(rows, field)
    IN  IF s = << >> THEN NoSamples ELSE summary(s)

\* The stats dictionary: the number of rows, the timestamp_received of the
\* first and of the last row, and the summary of each field (column maps
\* a field to its summary).
stats(rows, column) ==
    [total_readings |-> Len(rows),
     first_reading |-> IF Len(rows) > 0 THEN rows[1].timestamp_received ELSE None,
     last_reading |-> IF Len(rows) > 0 THEN rows[Len(rows)].timestamp_received
                                       ELSE None,
     temperature |-> column["temperature"],
     pressure |-> column["pressure"],
     altitude |-> column["altitude"]]

\* Lines 439-449: the answer when there is no file.
NoStatistics ==
    [total_readings |-> 0, first_reading |-> None, last_reading |-> None,
     temperature |-> NoSamples, pressure |-> NoSamples, altitude |-> NoSamples]

StatisticsFailed == Response("stats", 500, "Failed to calculate statistics")

\* Lines 475-504, taken when the pandas block raises: row[field] of a field
\* that is no column raises KeyError as soon as there is a row, and the
\* handler answers 500.
fallback_statistics(file) ==
    LET rows == read_csv(file)
    IN  IF rows # << >> /\ ~(StatFields \subseteq columns(file))
            THEN StatisticsFailed
            ELSE Result("stats", stats(rows, [field \in StatFields |->
                                                fallback_column(rows, field)]))

\* A faulty get_statistics: without a file it goes on to read it, and fails.
get_statistics_requires_file(pandas_ok) ==
    /\ response' =
          IF ~csv_exists THEN StatisticsFailed
          ELSE IF pandas_ok /\ csv_file # << >>
              THEN Result("stats", stats(read_csv(csv_file),
                                         [field \in StatFields |->
                                             pandas_column(csv_file, field)]))
              ELSE fallback_statistics(csv_file)
    /\ link' = "steady"
    /\ UNCHANGED << recorder_instance, is_recording, start_time, is_connected,
                    last_reading, total_readings, csv_exists, csv_file, sock,
                    loop_running, subscribed, msgpc, cur, starts >>
    /\ UNCHANGED << published, gui_vars >>

\* GET /api/data/stats: no file gives the empty statistics; pd.read_csv
\* raises on an empty file and can raise on any other (pandas_ok false).
get_statistics(pandas_ok) ==
    /\ response' =
          IF ~csv_exists THEN Result("stats", NoStatistics)
          ELSE IF pandas_ok /\ csv_file # << >>
              THEN Result("stats", stats(read_csv(csv_file),
                                         [field \in StatFields |->
                                             pandas_column(csv_file, field)]))
              ELSE fallback_statistics(csv_file)
    /\ link' = "steady"
    /\ UNCHANGED << recorder_instance, is_recording, start_time, is_connected,
                    last_reading, total_readings, csv_exists, csv_file, sock,
                    loop_running, subscribed, msgpc, cur, starts >>
    /\ UNCHANGED << published, gui_vars >>

(* -------------------------- API: actuator ----------------------------- *)

\* The payloads of /api/cooler/on, /off and /auto.
CoolerCommands == {"ON", "OFF", "AUTO"}

CoolerMessage(command) ==
    CASE command = "ON"   -> "Cooler turned ON"
      [] command = "OFF"  -> "Cooler turned OFF"
      [] command = "AUTO" -> "Cooler set to automatic mode"

NotConnected == Response("cooler", 503, "MQTT not connected")

\* POST /api/cooler/... with no recorder or a recorder that is not
\* connected: 503.
cooler_rejected ==
    /\ ~recorder_instance \/ ~is_connected
    /\ response' = NotConnected
    /\ link' = "steady"
    /\ UNCHANGED << recorder_instance, is_recording, start_time, is_connected,
                    last_reading, total_readings, csv_exists, csv_file, sock,
                    loop_running, subscribed, msgpc, cur, starts, published >>
    /\ UNCHANGED gui_vars

\* A faulty cooler_accepted: the command is published by any recorder.
cooler_accepted_unconnected(command) ==
    /\ recorder_instance
    /\ published' = Append(published, command)
    /\ response' = Response("cooler", 200, CoolerMessage(command))
    /\ link' = "steady"
    /\ UNCHANGED << recorder_instance, is_recording, start_time, is_connected,
                    last_reading, total_readings, csv_exists, csv_file, sock,
                    loop_running, subscribed, msgpc, cur, starts >>
    /\ UNCHANGED gui_vars

\* POST /api/cooler/... with a connected recorder: the command is handed to
\* client.publish() for sensors/cooler/control, whose result is not looked at.
cooler_accepted(command) ==
    /\ recorder_instance /\ is_connected
    /\ published' = Append(published, command)
    /\ response' = Response("cooler", 200, CoolerMessage(command))
    /\ link' = "steady"
    /\ UNCHANGED << recorder_instance, is_recording, start_time, is_connected,
                    last_reading, total_readings, csv_exists, csv_file, sock,
                    loop_running, subscribed, msgpc, cur, starts >>
    /\ UNCHANGED gui_vars

\* turn_cooler_on, turn_cooler_off, set_cooler_auto (either outcome).
cooler_command(command) == cooler_rejected \/ cooler_accepted(command)

\* The loop thread leaves on_message through an except clause.
message_dropped ==
    /\ msgpc = "raised"
    /\ on_message_except
    /\ UNCHANGED << recorder_instance, is_recording, start_time, is_connected,
                    last_reading, total_readings, csv_exists, csv_file, sock,
                    loop_running, subscribed, starts, response, link >>
    /\ UNCHANGED << published, gui_vars >>

(* -------------------------- serial plotter ---------------------------- *)

\* The command lines of the worker: cooler_on, cooler_off, cooler_auto, and
\* get_status and get_data, which the window's timers call.
CoolerLines == {"AT+COOLER=ON", "AT+COOLER=OFF", "AT+COOLER=AUTO"}

CommandLines == CoolerLines \cup {"AT+STATUS", "AT+DATA"}

\* connect_serial, lines 43-52 and 55-57, up to the return of serial.Serial:
\* a handle that the worker holds open is closed, then the port is opened;
\* the new handle is open but not yet assigned to serial_connection.  When
\* serial.Serial raises (port_ok false) the error is signalled.
connect_serial(port_ok) ==
    /\ serial_connection' = IF serial_connection = "open" THEN "closed"
                                                         ELSE serial_connection
    /\ handles' = handles - (IF serial_connection = "open" THEN 1 ELSE 0)
                           + (IF port_ok THEN 1 ELSE 0)
    /\ error_occurred' = IF port_ok THEN error_occurred ELSE "Failed to connect"

\* connect_serial, line 47: the new handle is assigned to serial_connection.
\* A handle the field held open loses its last reference there, and is
\* closed as the object is freed.
assign ==
    /\ serial_connection' = "open"
    /\ handles' = handles - (IF serial_connection = "open" THEN 1 ELSE 0)

\* A faulty write: a write that raises is made once more, and that one
\* goes through.
write_retried(command, write_ok) ==
    /\ wire' = Append(wire, command)
    /\ command_result' = "True"
    /\ error_occurred' = error_occurred

\* send_at_command, lines 66-72: the line is written and flushed, once;
\* when that raises (write_ok false) the error is signalled and the call
\* returns False.
write(command, write_ok) ==
    /\ wire' = IF write_ok THEN Append(wire, command) ELSE wire
    /\ command_result' = IF write_ok THEN "True" ELSE "False"
    /\ error_occurred' = IF write_ok THEN error_occurred
                                     ELSE "Failed to send command"

\* send_at_command is called: over an open handle it writes the line; with
\* no open handle it enters connect_serial first, and gives up when
\* serial.Serial raises.
send_at_command(command, port_ok, write_ok) ==
    /\ running
    /\ gui = Idle
    /\ IF serial_connection = "open"
          THEN /\ write(command, write_ok)
               /\ UNCHANGED << serial_connection, handles, gui >>
          ELSE /\ connect_serial(port_ok)
               /\ command_result' = IF port_ok THEN command_result ELSE "False"
               /\ wire' = wire
               /\ gui' = IF port_ok
                             THEN [at |-> "assigning", in |-> "send_at_command",
                                   command |-> command]
                             ELSE Idle
    /\ UNCHANGED << running, wpc >>
    /\ UNCHANGED << recorder_vars, plot_vars >>

\* send_at_command after its connect_serial opened the port: the handle is
\* assigned, connect_serial returns True and the line is written.
send_assign(write_ok) ==
    /\ gui.at = "assigning"
    /\ assign
    /\ write(gui.command, write_ok)
    /\ gui' = Idle
    /\ UNCHANGED << running, wpc >>
    /\ UNCHANGED << recorder_vars, plot_vars >>

\* Where the worker thread can be in run: at the test of the while loop,
\* at the test of the handle, in connect_serial before serial.Serial or
\* before the handle is assigned, in one of the three sleeps (backoff 5 s,
\* pause 0.1 s, error 1 s), at the read, or out of run.
WorkerPositions ==
    {"test", "poll", "connecting", "assigning", "backoff", "reading", "pause",
     "error", "exited"}

\* run, line 108: the loop goes on while running, else run returns.
run_test ==
    /\ wpc = "test"
    /\ wpc' = IF running THEN "poll" ELSE "exited"
    /\ UNCHANGED << serial_connection, handles, running, wire, command_result,
                    error_occurred, gui >>
    /\ UNCHANGED << recorder_vars, plot_vars >>

\* run, line 110: with no open handle the worker connects, else it reads.
run_poll ==
    /\ wpc = "poll"
    /\ wpc' = IF serial_connection # "open" THEN "connecting" ELSE "reading"
    /\ UNCHANGED << serial_connection, handles, running, wire, command_result,
                    error_occurred, gui >>
    /\ UNCHANGED << recorder_vars, plot_vars >>

\* A faulty run_connect: a failed connect_serial ends the loop.
run_connect_gives_up(port_ok) ==
    /\ wpc = "connecting"
    /\ connect_serial(port_ok)
    /\ wpc' = IF port_ok THEN "assigning" ELSE "exited"
    /\ UNCHANGED << running, wire, command_result, gui >>
    /\ UNCHANGED << recorder_vars, plot_vars >>

\* run, lines 111-113: connect_serial; when serial.Serial raises the worker
\* goes to sleep 5 s, else it goes on to assign the handle.
run_connect(port_ok) ==
    /\ wpc = "connecting"
    /\ connect_serial(port_ok)
    /\ wpc' = IF port_ok THEN "assigning" ELSE "backoff"
    /\ UNCHANGED << running, wire, command_result, gui >>
    /\ UNCHANGED << recorder_vars, plot_vars >>

\* run, line 111: the handle is assigned, connect_serial returns True after
\* its 2 s and the worker goes on to the read.
run_assign ==
    /\ wpc = "assigning"
    /\ assign
    /\ wpc' = "reading"
    /\ UNCHANGED << running, wire, command_result, error_occurred, gui >>
    /\ UNCHANGED << recorder_vars, plot_vars >>

\* run, lines 115-125: in_waiting and readline on the handle; on a handle
\* that is closed, or when the device is gone (read_ok false), they raise,
\* the error is signalled and the worker goes to sleep 1 s.
run_read(read_ok) ==
    /\ wpc = "reading"
    /\ IF serial_connection = "open" /\ read_ok
          THEN /\ wpc' = "pause"
               /\ UNCHANGED error_occurred
          ELSE /\ wpc' = "error"
               /\ error_occurred' = "Serial communication error"
    /\ UNCHANGED << serial_connection, handles, running, wire, command_result,
                    gui >>
    /\ UNCHANGED << recorder_vars, plot_vars >>

\* A line read from the device, by what process_serial_line looks at: how
\* it starts ("{", "STATUS:", "ERROR:" or none of them), whether it ends
\* with "}", the text after the start, and what json.loads makes of it.
SerialLine(head, closed, body, json) ==
    [head |-> head, closed |-> closed, body |-> body, json |-> json]

\* {"timestamp": 1000, "device": "dev1", "temperature": 21.5, ...}
DataLine == SerialLine("{", TRUE, "", FullFrame)

\* {"status": "ok"}: an object without a temperature member.
AckLine == SerialLine("{", TRUE, "", AckFrame)

\* {"temperature": }: braces, but no JSON.
MalformedLine == SerialLine("{", TRUE, "", TruncatedFrame)

\* {"temperature": 21.5 cut before its closing brace.
CutLine == SerialLine("{", FALSE, "", TruncatedFrame)

StatusLine == SerialLine("STATUS:", FALSE, "cooler on", TruncatedFrame)

OkLine == SerialLine("", FALSE, "OK", TruncatedFrame)

ErrorAckLine == SerialLine("", FALSE, "ERROR", TruncatedFrame)

\* ERROR: sensor fault
ErrorLine == SerialLine("ERROR:", FALSE, "sensor fault", TruncatedFrame)

\* Any other text, such as a boot message.
NoiseLine == SerialLine("", FALSE, "boot", TruncatedFrame)

SerialLines ==
    {DataLine, AckLine, MalformedLine, CutLine, StatusLine, OkLine,
     ErrorAckLine, ErrorLine, NoiseLine}

\* Line 139: the number of readings the buffer keeps.
BufferLimit == 500

\* A faulty trimmed: the first BufferLimit readings are kept.
trimmed_keeps_oldest(buffer) ==
    IF Len(buffer) > BufferLimit THEN SubSeq(buffer, 1, BufferLimit) ELSE buffer

\* Lines 139-140: data_buffer[-500:] when the buffer is longer than 500.
trimmed(buffer) ==
    IF Len(buffer) > BufferLimit
        THEN SubSeq(buffer, Len(buffer) - BufferLimit + 1, Len(buffer))
        ELSE buffer

\* A faulty process_serial_line: every object is buffered and emitted.
process_serial_line_any_object(line, t) ==
    IF line.head = "{" /\ line.closed
        THEN LET parsed == json_loads(line.json)
             IN  IF ~parsed.ok
                     THEN /\ error_occurred' = IF line.head = "ERROR:" THEN line.body
                                                                      ELSE error_occurred
                          /\ UNCHANGED << data_buffer, data_received, status_received >>
                     ELSE LET data == reading_of(parsed.value, isoformat(t))
                          IN  /\ data_buffer' = trimmed(Append(data_buffer, data))
                              /\ data_received' = Append(data_received, data)
                              /\ UNCHANGED << status_received, error_occurred >>
        ELSE IF line.head = "STATUS:"
            THEN /\ status_received' = line.body
                 /\ UNCHANGED << data_buffer, data_received, error_occurred >>
            ELSE UNCHANGED << data_buffer, data_received, status_received,
                              error_occurred >>

\* process_serial_line: a line in braces is parsed, and an object with a
\* temperature member is stamped, buffered and emitted; when json.loads
\* raises, the line is signalled as an error if it starts with ERROR: and
\* printed otherwise.  A line starting with STATUS: is emitted as a status.
\* OK and ERROR are printed, any other line is passed over.
process_serial_line(line, t) ==
    IF line.head = "{" /\ line.closed
        THEN LET parsed == json_loads(line.json)
             IN  IF ~parsed.ok
                     THEN /\ error_occurred' = IF line.head = "ERROR:" THEN line.body
                                                                      ELSE error_occurred
                          /\ UNCHANGED << data_buffer, data_received, status_received >>
                     ELSE IF "temperature" \in DOMAIN parsed.value
                         THEN LET data == reading_of(parsed.value, isoformat(t))
                              IN  /\ data_buffer' = trimmed(Append(data_buffer, data))
                                  /\ data_received' = Append(data_received, data)
                                  /\ UNCHANGED << status_received, error_occurred >>
                         ELSE UNCHANGED << data_buffer, data_received,
                                           status_received, error_occurred >>
        ELSE IF line.head = "STATUS:"
            THEN /\ status_received' = line.body
                 /\ UNCHANGED << data_buffer, data_received, error_occurred >>
            ELSE UNCHANGED << data_buffer, data_received, status_received,
                              error_occurred >>

\* run, lines 115-121: a line waits on the open handle; it is read and
\* processed at instant t, and the worker goes to its short sleep.
run_line(line, t) ==
    /\ wpc = "reading"
    /\ serial_connection = "open"
    /\ process_serial_line(line, t)
    /\ wpc' = "pause"
    /\ UNCHANGED << serial_connection, handles, running, wire, command_result,
                    gui, time_data, temperature_data, humidity_data, pressure_data,
                    gui_start_time >>
    /\ UNCHANGED recorder_vars

\* A faulty run_sleep: after the sleep the worker tests the handle again,
\* not the running flag.
run_sleep_skips_test ==
    /\ wpc \in {"backoff", "pause", "error"}
    /\ wpc' = "poll"
    /\ UNCHANGED << serial_connection, handles, running, wire, command_result,
                    error_occurred, gui >>
    /\ UNCHANGED << recorder_vars, plot_vars >>

\* run, lines 112-113, 121 and 125: the sleep ends and the loop starts over
\* at its test.
run_sleep ==
    /\ wpc \in {"backoff", "pause", "error"}
    /\ wpc' = "test"
    /\ UNCHANGED << serial_connection, handles, running, wire, command_result,
                    error_occurred, gui >>
    /\ UNCHANGED << recorder_vars, plot_vars >>

\* The worker thread takes a step.
run ==
    \/ run_test
    \/ run_poll
    \/ \E port_ok \in BOOLEAN : run_connect(port_ok)
    \/ run_assign
    \/ \E read_ok \in BOOLEAN : run_read(read_ok)
    \/ run_sleep

\* stop, line 176, called by handler: running = False.
stop_begin(handler) ==
    /\ gui = Idle
    /\ running
    /\ running' = FALSE
    /\ gui' = [at |-> "stop", in |-> handler, command |-> ""]
    /\ UNCHANGED << serial_connection, handles, wire, command_result, error_occurred, wpc >>
    /\ UNCHANGED << recorder_vars, plot_vars >>

\* stop, lines 177-178: a handle that is open is closed; the handler goes
\* on to worker.wait().
stop_end ==
    /\ gui.at = "stop"
    /\ serial_connection' = IF serial_connection = "open" THEN "closed"
                                                         ELSE serial_connection
    /\ handles' = handles - (IF serial_connection = "open" THEN 1 ELSE 0)
    /\ gui' = [gui EXCEPT !.at = "wait"]
    /\ UNCHANGED << running, wire, command_result, error_occurred, wpc >>
    /\ UNCHANGED << recorder_vars, plot_vars >>

\* closeEvent: the window is closed; the handler stops the worker.
closeEvent == stop_begin("closeEvent")

\* reconnect_serial: the handler stops the worker.
reconnect_serial == stop_begin("reconnect_serial")

\* worker.wait() returns once run has returned: closeEvent accepts and the
\* window goes; reconnect_serial makes a new worker and starts it, and a
\* handle the old worker held open is closed as the worker is freed.
wait_returns ==
    /\ gui.at = "wait"
    /\ wpc = "exited"
    /\ IF gui.in = "closeEvent"
          THEN /\ gui' = [at |-> "closed", in |-> "", command |-> ""]
               /\ UNCHANGED << serial_connection, handles, running, wpc,
                               data_buffer >>
          ELSE /\ gui' = Idle
               /\ serial_connection' = "none"
               /\ handles' = handles - (IF serial_connection = "open" THEN 1 ELSE 0)
               /\ running' = TRUE
               /\ wpc' = "test"
               /\ data_buffer' = << >>
    /\ UNCHANGED << wire, command_result, error_occurred >>
    /\ UNCHANGED << data_received, status_received, time_data, temperature_data,
                    humidity_data, pressure_data, gui_start_time >>
    /\ UNCHANGED recorder_vars

(* ----------------------------- the plots ------------------------------ *)

\* {"temperature": 21.5, "humidity": null, "pressure": 1013.2}
NullFrame ==
    [syntax |-> "object",
     data |-> [temperature |-> "21.5", humidity |-> "null", pressure |-> "1013.2"]]

NullLine == SerialLine("{", TRUE, "", NullFrame)

\* {"temperature": 21.5}: the other measurements are absent.
PartFrame ==
    [syntax |-> "object", data |-> [temperature |-> "21.5"]]

PartLine == SerialLine("{", TRUE, "", PartFrame)

PlotLines == {DataLine, NullLine, PartLine}

\* The measurements the window plots, in the order it converts them.
PlotFields == << "temperature", "humidity", "pressure" >>

\* float(value) raises: TypeError for None (JSON null), ValueError for a
\* text that is no number.
float_raises(value) == value \in {"null", "n/a"}

\* reading.get(field, 0) of measurement number k
measurement(reading, k) == get(reading, PlotFields[k], "0")

\* (timestamp - self.start_time).total_seconds()
seconds_since_start(start, t) == t - start.now

\* Line 769: the number of points a series keeps.
max_points == 500

\* series[-max_points:]
last_points(series) ==
    SubSeq(series,
           IF Len(series) > max_points THEN Len(series) - max_points + 1 ELSE 1,
           Len(series))

\* Lines 751-752 and 811-812: start_time is set at the first use.
started(t) == IF gui_start_time = None THEN [now |-> t] ELSE gui_start_time

\* process_new_data: a data_received signal is delivered at instant t.  The
\* three measurements are converted first; when a conversion raises, the
\* reading is printed and dropped; else a point is appended to each of the
\* four series, and the series are cut to their last max_points points
\* when time_data has more.
process_new_data(t) ==
    /\ gui = Idle
    /\ data_received # << >>
    /\ started(t).now <= t
    /\ LET reading == Head(data_received)
           time == Append(time_data, seconds_since_start(started(t), t))
       IN  IF \E k \in 1..3 : float_raises(measurement(reading, k))
               THEN UNCHANGED << time_data, temperature_data, humidity_data,
                                 pressure_data >>
               ELSE LET temperature ==
                            Append(temperature_data, float(measurement(reading, 1)))
                        humidity ==
                            Append(humidity_data, float(measurement(reading, 2)))
                        pressure ==
                            Append(pressure_data, float(measurement(reading, 3)))
                    IN  IF Len(time) > max_points
                            THEN /\ time_data' = last_points(time)
                                 /\ temperature_data' = last_points(temperature)
                                 /\ humidity_data' = last_points(humidity)
                                 /\ pressure_data' = last_points(pressure)
                            ELSE /\ time_data' = time
                                 /\ temperature_data' = temperature
                                 /\ humidity_data' = humidity
                                 /\ pressure_data' = pressure
    /\ gui_start_time' = started(t)
    /\ data_received' = Tail(data_received)
    /\ UNCHANGED << serial_connection, handles, running, wire, command_result,
                    error_occurred, wpc, gui, data_buffer, status_received >>
    /\ UNCHANGED recorder_vars

\* How many points refresh_plots appends to series number k (0 for
\* time_data): one for each buffered reading before the first one with a
\* measurement float() raises on, and one for that reading when the
\* append to the series comes before the conversion that raises.
converted(buffered, k) ==
    Cardinality({i \in 1..Len(buffered) :
        /\ \A j \in 1..(i - 1), m \in 1..3 :
              ~float_raises(measurement(buffered[j], m))
        /\ \A m \in 1..k : ~float_raises(measurement(buffered[i], m))})

\* refresh_plots (the Refresh button) at instant t: with readings in the worker's buffer the
\* four series are cleared and built again from the buffer, reading by
\* reading: the time is appended, then each measurement is converted and
\* appended; a conversion that raises ends the loop there.
refresh_plots(t) ==
    /\ gui = Idle
    /\ started(t).now <= t
    /\ IF data_buffer = << >>
          THEN UNCHANGED << time_data, temperature_data, humidity_data,
                            pressure_data, gui_start_time >>
          ELSE /\ gui_start_time' = started(t)
               /\ time_data' = [i \in 1..converted(data_buffer, 0) |->
                                   seconds_since_start(started(t), t)]
               /\ temperature_data' = [i \in 1..converted(data_buffer, 1) |->
                                          float(measurement(data_buffer[i], 1))]
               /\ humidity_data' = [i \in 1..converted(data_buffer, 2) |->
                                       float(measurement(data_buffer[i], 2))]
               /\ pressure_data' = [i \in 1..converted(data_buffer, 3) |->
                                       float(measurement(data_buffer[i], 3))]
    /\ UNCHANGED << serial_connection, handles, running, wire, command_result,
                    error_occurred, wpc, gui, data_buffer, data_received,
                    status_received >>
    /\ UNCHANGED recorder_vars

\* clear_data: the four series are emptied and start_time forgotten.
clear_data ==
    /\ gui = Idle
    /\ time_data' = << >>
    /\ temperature_data' = << >>
    /\ humidity_data' = << >>
    /\ pressure_data' = << >>
    /\ gui_start_time' = None
    /\ UNCHANGED << serial_connection, handles, running, wire, command_result,
                    error_occurred, wpc, gui, data_buffer, data_received,
                    status_received >>
    /\ UNCHANGED recorder_vars

(* --------------------------- specification ---------------------------- *)

\* What the stop handler, the broker and the loop thread do in every
\* specification.
Transport ==
    \/ stop_recording
    \/ \E rc \in {0, 5} : connack(rc)
    \/ connection_lost
    \/ loop_reconnect
    \/ \E io_ok \in BOOLEAN : message_done(io_ok)
    \/ message_dropped

\* Session level: up to MaxStarts start requests in flight at once.
Next ==
    \/ start_rejected
    \/ InFlight < MaxStarts /\ start_accepted
    \/ \E th \in ThreadStates : start_returns(th)
    \/ \E h \in HandlerStates, t \in SessionTimes : connect_and_start(h, t)
    \/ Transport
    \/ \E frame \in Frames, t \in SessionTimes :
          total_readings < SessionReadings /\ message_arrives(frame, t)

Spec == Init /\ [][Next]_vars

\* Ingestion level: one start request at a time, more readings and instants.
NextIngest ==
    \/ start_rejected
    \/ InFlight = 0 /\ start_accepted
    \/ \E th \in ThreadStates : start_returns(th)
    \/ \E h \in HandlerStates, t \in Times(MaxTime) : connect_and_start(h, t)
    \/ Transport
    \/ \E frame \in Frames, t \in Times(MaxTime) :
          total_readings < MaxReadings /\ message_arrives(frame, t)

SpecIngest == Init /\ [][NextIngest]_vars

\* The read-only requests of the API, the data request without a date or
\* with a start date that is no timestamp.
Queries ==
    \/ \E limit \in Limits, start_date \in {NoArg, Malformed}, pandas_ok \in BOOLEAN :
          get_data(limit, start_date, NoArg, pandas_ok)
    \/ get_status
    \/ get_latest_reading
    \/ \E pandas_ok \in BOOLEAN : get_statistics(pandas_ok)

\* Query level: one start request at a time, few readings, the clock
\* standing still, and the queries.
NextQuery ==
    \/ start_rejected
    \/ InFlight = 0 /\ start_accepted
    \/ \E th \in ThreadStates : start_returns(th)
    \/ \E h \in HandlerStates, t \in SessionTimes : connect_and_start(h, t)
    \/ Transport
    \/ \E frame \in Frames, t \in SessionTimes :
          total_readings < QueryReadings /\ message_arrives(frame, t)
    \/ Queries

SpecQuery == Init /\ [][NextQuery]_vars

\* Actuator level: one start request at a time, the clock standing still,
\* and the actuator requests.
NextControl ==
    \/ start_rejected
    \/ InFlight = 0 /\ start_accepted
    \/ \E th \in ThreadStates : start_returns(th)
    \/ \E h \in HandlerStates, t \in SessionTimes : connect_and_start(h, t)
    \/ Transport
    \/ \E frame \in Frames, t \in SessionTimes :
          total_readings < SessionReadings /\ message_arrives(frame, t)
    \/ cooler_rejected
    \/ \E command \in CoolerCommands :
          Len(published) < MaxCommands /\ cooler_accepted(command)

SpecControl == Init /\ [][NextControl]_vars

\* The serial plotter: its worker thread, and the window's commands.
NextSerial ==
    \/ \E command \in CommandLines, port_ok \in BOOLEAN, write_ok \in BOOLEAN :
          Len(wire) < MaxWrites /\ send_at_command(command, port_ok, write_ok)
    \/ \E write_ok \in BOOLEAN : send_assign(write_ok)
    \/ run
    \/ closeEvent
    \/ reconnect_serial
    \/ stop_end
    \/ wait_returns

SpecSerial == Init /\ [][NextSerial]_vars

\* The worker thread of the serial plotter alone with the status timer
\* (update_status sends AT+STATUS) and the handlers that stop the worker.
NextWorker ==
    \/ \E port_ok \in BOOLEAN, write_ok \in BOOLEAN :
          Len(wire) < MaxWrites /\ send_at_command("AT+STATUS", port_ok, write_ok)
    \/ \E write_ok \in BOOLEAN : send_assign(write_ok)
    \/ run
    \/ closeEvent
    \/ reconnect_serial
    \/ stop_end
    \/ wait_returns

\* The worker is a thread of its own and every call it blocks in is timed
\* (the sleeps, the port's timeout=1), so it always takes its next step.
SpecWorker == Init /\ [][NextWorker]_vars /\ WF_vars(run)

\* The logs a recorder can leave: the header and up to n rows, each stamped
\* with some reading of the clock (the 0 of an earlier run included).
RECURSIVE Logs(_)
Logs(n) ==
    IF n = 0 THEN {<<HeaderRow>>}
    ELSE LET shorter == Logs(n - 1)
         IN  shorter \cup
             { Append(log, csv_data(frame.data, isoformat(t))) :
                   log \in shorter, frame \in {FullFrame, AckFrame}, t \in 0..MaxTime }

\* The program starts over any such log.
InitData == Boot(Logs(MaxRows))

\* Data level: the data request with every combination of parameters, and
\* the statistics request.
NextData ==
    \/ \E limit \in RawLimits, start_date \in RawDates, end_date \in RawDates,
          pandas_ok \in BOOLEAN : get_data(limit, start_date, end_date, pandas_ok)
    \/ \E pandas_ok \in BOOLEAN : get_statistics(pandas_ok)

SpecData == InitData /\ [][NextData]_vars

\* The worker over a device that sends reading after reading: the n-th
\* is stamped n, up to MaxBuffered of them.
NextBuffer ==
    \/ run_test
    \/ run_poll
    \/ run_connect(TRUE)
    \/ run_assign
    \/ run_sleep
    \/ Len(data_received) < MaxBuffered
          /\ run_line(DataLine, Len(data_received) + 1)

SpecBuffer == Init /\ [][NextBuffer]_vars

\* The worker over a device that sends lines of every kind, up to
\* MaxSerialLines of them.
NextDecode ==
    \/ run_test
    \/ run_poll
    \/ \E port_ok \in BOOLEAN : run_connect(port_ok)
    \/ run_assign
    \/ \E read_ok \in BOOLEAN : run_read(read_ok)
    \/ run_sleep
    \/ \E line \in SerialLines, t \in SessionTimes :
          Len(data_received) < MaxSerialLines /\ run_line(line, t)

SpecDecode == Init /\ [][NextDecode]_vars

\* The window's plots over a device that sends up to MaxPlotted readings,
\* whole or with a measurement that is null or absent.
NextPlot ==
    \/ run_test
    \/ run_poll
    \/ run_connect(TRUE)
    \/ run_assign
    \/ run_sleep
    \/ \E line \in PlotLines, t \in Times(MaxTime) :
          Len(data_buffer) < MaxPlotted /\ run_line(line, t)
    \/ \E t \in Times(MaxTime) : process_new_data(t)
    \/ \E t \in Times(MaxTime) : refresh_plots(t)
    \/ clear_data

SpecPlot == Init /\ [][NextPlot]_vars

(* ------------------------------ claims -------------------------------- *)

\* The fields of the session and the recorder a stop from Idle must leave alone.
ProgramState ==
    << recorder_instance, is_recording, start_time, is_connected, last_reading,
       total_readings, csv_exists, csv_file, sock, loop_running, subscribed,
       msgpc, cur, starts >>

\* C1: a start request handled while the session is recording answers 400
\* "Recording is already active" and changes neither total_readings nor
\* last_reading nor is_recording.
C1_RejectDoubleStart ==
    [][ (is_recording /\ start_recording) =>
            /\ response' = StartRejected
            /\ UNCHANGED << total_readings, last_reading, is_recording >> ]_vars

\* A start was rejected on a recording session that has a reading.
C1_Witness ==
    /\ response = StartRejected
    /\ is_recording
    /\ total_readings > 0
    /\ last_reading # None

\* C2: of the start requests issued from Idle at most one is accepted at a
\* time, so at most one thread is inside connect_and_start.
C2_AtMostOneStart == Running <= 1

\* C3: a stop request that follows a successful stop, with no API call in
\* between, is rejected with "Recording is not active" and leaves
\* is_recording false.
C3_StopTwice ==
    [][ (response = StopSucceeded /\ stop_recording) =>
            (response' = StopRejected /\ ~is_recording') ]_vars

\* C4: a stop request is accepted exactly when is_recording is true, whatever
\* is_connected is; accepted, it closes the connection, stops the loop and
\* leaves is_recording false; rejected, it changes no state.
C4_StopAcceptance ==
    [][ stop_recording =>
            IF is_recording
                THEN /\ response' = StopSucceeded
                     /\ sock' = "closed"
                     /\ ~loop_running'
                     /\ ~is_recording'
                ELSE /\ response' = StopRejected
                     /\ UNCHANGED ProgramState ]_vars

\* A stop was accepted on a session that had ingested a reading.
C4_Witness ==
    /\ response = StopSucceeded
    /\ ~is_recording
    /\ sock = "closed"
    /\ ~loop_running
    /\ total_readings > 0

C6_StartMarksRecording ==
    [][ /\ \A h \in HandlerStates, t \in Times(MaxTime) :
              mark_recording(h, t) =>
                  (is_recording' /\ start_time' # None /\ is_connected' = is_connected)
        /\ (~is_connected /\ is_connected') => (sock = "sent" /\ sock' = "up") ]_vars

\* Recording, with a start time, and the CONNACK still to come.
C6_Witness ==
    /\ is_recording
    /\ ~is_connected
    /\ start_time # None
    /\ sock = "sent"
    /\ link = "steady"
    /\ response \in {Pending, StartSucceeded}

\* C7: a disconnect event while recording sets is_connected to false and
\* leaves is_recording, start_time, total_readings and last_reading as they
\* are.
C7_DisconnectKeepsSession ==
    [][ (is_recording /\ connection_lost) =>
            /\ ~is_connected'
            /\ UNCHANGED << is_recording, start_time, total_readings, last_reading >> ]_vars

\* The connection of a recording session with a reading was lost.
C7_Witness ==
    /\ link = "lost"
    /\ is_recording
    /\ ~is_connected
    /\ Running = 0
    /\ total_readings > 0

\* C8: when the connection comes back after a loss while recording (CONNACK
\* with rc = 0), the session is connected and subscribed again, still
\* recording, with no API call made, and the loop thread can take a frame.
C8_ReconnectResumes ==
    [][ (is_recording /\ link = "lost" /\ connack(0)) =>
            /\ is_connected' /\ subscribed' /\ sock' = "up"
            /\ loop_running' /\ msgpc' = "idle"
            /\ is_recording'
            /\ response' = response ]_vars

\* Lost and up again since the last API call, recording all along.
C8_Witness ==
    /\ link = "recovered"
    /\ is_recording
    /\ is_connected
    /\ subscribed
    /\ sock = "up"
    /\ Running = 0

\* C9: a frame that parses to an object becomes last_reading, is counted
\* once, and is handed to the writer as one row built from it; no step
\* counts more than one reading or adds more than one line.
C9_OneReadingOneRow ==
    [][ /\ \A frame \in Frames, t \in Times(MaxTime) :
              (message_arrives(frame, t) /\ frame.syntax = "object") =>
                  /\ last_reading' = reading_of(frame.data, isoformat(t))
                  /\ msgpc' = "stored"
                  /\ total_readings' = total_readings
                  /\ csv_file' = csv_file
        /\ \A io_ok \in BOOLEAN :
              message_done(io_ok) =>
                  LET ts == isoformat(cur.receive_time) IN
                  /\ last_reading = reading_of(cur.data, ts)
                  /\ last_reading' = last_reading
                  /\ total_readings' = total_readings + 1
                  /\ csv_file' = IF io_ok THEN Append(csv_file, csv_data(cur.data, ts))
                                          ELSE csv_file
        /\ total_readings' \in {total_readings, total_readings + 1}
        /\ Len(csv_file') <= Len(csv_file) + 1 ]_vars

\* Two readings were ingested; the second is last_reading and the last row.
C9_Witness ==
    /\ total_readings = 2
    /\ msgpc = "idle"
    /\ last_reading = reading_of(FullFrame.data, isoformat(2))
    /\ Len(csv_file) >= 3
    /\ csv_file[Len(csv_file)] = csv_data(FullFrame.data, isoformat(2))
    /\ csv_file[Len(csv_file) - 1] = csv_data(AckFrame.data, isoformat(1))

\* C10: when the write of an accepted reading fails, the reading stays
\* last_reading and is counted, the log gets no line, is_recording and the
\* connection are as before, and the loop thread is ready for the next frame.
C10_WriteFailureIsNotFatal ==
    [][ message_done(FALSE) =>
            /\ last_reading' = last_reading
            /\ last_reading # None
            /\ total_readings' = total_readings + 1
            /\ csv_file' = csv_file
            /\ msgpc' = "idle"
            /\ UNCHANGED << is_recording, is_connected, sock, loop_running, subscribed >> ]_vars

\* Two readings were counted and neither was written.
C10_Witness ==
    /\ total_readings = 2
    /\ last_reading # None
    /\ csv_file = <<HeaderRow>>
    /\ is_recording
    /\ msgpc = "idle"

\* C11: a frame that does not decode (truncated JSON, or JSON that is no
\* object) takes on_message to an except clause with no row appended and
\* total_readings, last_reading, is_recording and is_connected as they were;
\* when the clause is left it is still so, and the loop thread is where it
\* takes the next frame.
C11_DecodeFailureDropsFrame ==
    [][ /\ \A frame \in Frames, t \in Times(MaxTime) :
              (message_arrives(frame, t) /\ frame.syntax # "object") =>
                  /\ msgpc' = "raised"
                  /\ UNCHANGED << csv_file, total_readings, last_reading,
                                  is_recording, is_connected >>
        /\ message_dropped =>
              /\ UNCHANGED << csv_file, total_readings, last_reading,
                              is_recording, is_connected >>
              /\ loop_running' /\ sock' = "up" /\ subscribed' /\ msgpc' = "idle" ]_vars

\* A truncated frame has failed to decode after one reading was ingested.
C11_Witness ==
    /\ msgpc = "raised"
    /\ cur.data = TruncatedFrame.data
    /\ total_readings = 1
    /\ last_reading # None
    /\ Len(csv_file) >= 2
    /\ is_recording

\* C12: the log is append-only: whatever step is taken (a start, a stop, the
\* ingestion of a frame, a query), the file that existed still exists and its
\* lines are the lines it had, in their order, with zero or more lines after
\* them.
C12_AppendOnly ==
    [][ /\ csv_exists => csv_exists'
        /\ Len(csv_file') >= Len(csv_file)
        /\ SubSeq(csv_file', 1, Len(csv_file)) = csv_file ]_vars

\* A recorder built over the log of an earlier run has appended a row to it,
\* was stopped, and the log was queried.
C12_Witness ==
    /\ response.op = "data"
    /\ response.code = 200
    /\ response.data = << OldRow, csv_data(FullFrame.data, isoformat(1)) >>
    /\ csv_file = << HeaderRow, OldRow, csv_data(FullFrame.data, isoformat(1)) >>
    /\ ~is_recording
    /\ sock = "closed"

\* C13: rows are in the order their readings were accepted: a reading is
\* accepted only when no accepted reading is waiting for the writer, and the
\* writer puts the row of the reading accepted last (it is last_reading)
\* after every row of the log, which stay where they are.
C13_RowsInAcceptanceOrder ==
    [][ /\ (msgpc # "stored" /\ msgpc' = "stored") =>
              (msgpc = "idle" /\ cur = NoFrame /\ csv_file' = csv_file)
        /\ (csv_exists /\ csv_file' # csv_file) =>
              LET ts == isoformat(cur.receive_time) IN
              /\ msgpc = "stored"
              /\ last_reading = reading_of(cur.data, ts)
              /\ Len(csv_file') = Len(csv_file) + 1
              /\ csv_file'[Len(csv_file')] = csv_data(cur.data, ts)
              /\ \A i \in 1..Len(csv_file) : csv_file'[i] = csv_file[i] ]_vars

\* Two readings of one session, accepted in this order and both written; the
\* clock was set back between them.
C13_Witness ==
    /\ total_readings = 2
    /\ msgpc = "idle"
    /\ Len(csv_file) >= 3
    /\ csv_file[Len(csv_file) - 1] = csv_data(AckFrame.data, isoformat(2))
    /\ csv_file[Len(csv_file)] = csv_data(FullFrame.data, isoformat(1))
    /\ last_reading = reading_of(FullFrame.data, isoformat(1))

\* C14: the timestamp_received values of the rows of the log never decrease
\* from one row to the next.
C14_TimestampsNonDecreasing ==
    \A i, j \in 2..Len(csv_file) :
        i < j => to_datetime(csv_file[i].timestamp_received)
                     <= to_datetime(csv_file[j].timestamp_received)

\* C15: in the row written for an accepted frame, a column whose member is in
\* the frame (timestamp for timestamp_device, the column's own name for the
\* others) holds the frame's value; a column whose member is absent is empty,
\* and not 0, except device, which holds "unknown".
C15_AbsentFieldsBlank ==
    [][ message_done(TRUE) =>
            LET row == csv_file'[Len(csv_file')]
                member(c) == IF c = "timestamp_device" THEN "timestamp" ELSE c
            IN  \A c \in CsvColumns \ {"timestamp_received"} :
                    IF member(c) \in DOMAIN cur.data
                        THEN row[c] = cur.data[member(c)]
                        ELSE /\ row[c] = (IF c = "device" THEN "unknown" ELSE "")
                             /\ row[c] # "0" ]_vars

\* A frame with no measurement and no device, then a frame with measurements
\* and no actuator member, were written.
C15_Witness ==
    /\ total_readings = 2
    /\ msgpc = "idle"
    /\ Len(csv_file) >= 3
    /\ LET ack == csv_file[Len(csv_file) - 1]
           full == csv_file[Len(csv_file)]
       IN  /\ ack.device = "unknown"
           /\ ack.humidity = "" /\ ack.temperature = "" /\ ack.timestamp_device = ""
           /\ full.device = "dev1"
           /\ full.humidity = "40" /\ full.timestamp_device = "1000"
           /\ full.cooler_running = "" /\ full.manual_override = ""

\* C16: a start request that builds the recorder creates a missing log with
\* the header row and nothing else, and leaves an existing log as it is;
\* whatever step is taken, the log holds at most one header row.
C16_HeaderOnce ==
    [][ /\ (start_accepted /\ ~recorder_instance) =>
              /\ csv_exists'
              /\ csv_file' = IF csv_exists THEN csv_file ELSE <<HeaderRow>>
        /\ Cardinality({i \in 1..Len(csv_file') : csv_file'[i] = HeaderRow}) <= 1 ]_vars

\* A recorder was started over the log of an earlier run and has added a row:
\* the header is the first line and the only header.
C16_Witness ==
    /\ recorder_instance
    /\ total_readings = 1
    /\ msgpc = "idle"
    /\ Len(csv_file) = 3
    /\ csv_file[1] = HeaderRow
    /\ csv_file[2] = OldRow
    /\ csv_file[3] # HeaderRow
    /\ response = StartSucceeded

\* C17: an actuator request hands its command to the transport exactly when
\* there is a recorder whose is_connected is true; otherwise it answers 503
\* "MQTT not connected" and publishes nothing; either way is_recording,
\* start_time, total_readings and last_reading are as before.
C17_CommandNeedsConnection ==
    [][ \A command \in CoolerCommands :
            cooler_command(command) =>
                /\ IF recorder_instance /\ is_connected
                       THEN /\ published' = Append(published, command)
                            /\ response'.code = 200
                       ELSE /\ published' = published
                            /\ response' = NotConnected
                /\ UNCHANGED << is_recording, start_time, total_readings,
                                last_reading >> ]_vars

\* A command was published on a connected recorder; after the connection was
\* lost the next one was refused, the session still recording.
C17_Witness ==
    /\ published = << "ON" >>
    /\ response = NotConnected
    /\ ~is_connected
    /\ is_recording
    /\ total_readings = 1
    /\ last_reading # None

\* C18: an actuator command of the serial plotter issued while the serial
\* handle is not open is rejected (send_at_command returns False) and writes
\* nothing to the device.
C18_SerialCommandNeedsOpenHandle ==
    [][ /\ \A command \in CoolerLines, port_ok \in BOOLEAN, write_ok \in BOOLEAN :
              (serial_connection # "open" /\ gui' = Idle
                  /\ send_at_command(command, port_ok, write_ok)) =>
                  (wire' = wire /\ command_result' = "False")
        /\ \A write_ok \in BOOLEAN :
              (gui.command \in CoolerLines /\ send_assign(write_ok)) =>
                  (wire' = wire /\ command_result' = "False") ]_vars

\* C19: last_reading, and what get_status and get_latest_reading answered
\* from it, is None or one whole accepted reading: the members of a frame
\* that is an object together with a timestamp_received.
C19_NoTornReading ==
    LET whole(reading) ==
            \/ reading = None
            \/ /\ "timestamp_received" \in DOMAIN reading
               /\ \E frame \in Frames, t \in Times(MaxTime) :
                     /\ frame.syntax = "object"
                     /\ reading = reading_of(frame.data, isoformat(t))
    IN  /\ whole(last_reading)
        /\ response.op = "status" => whole(response.data.last_reading)
        /\ response.op = "latest" => whole(response.data)

\* get_latest_reading answered while on_message was between storing the
\* reading and counting it.
C19_Witness ==
    /\ msgpc = "stored"
    /\ total_readings = 0
    /\ response.op = "latest"
    /\ response.data = reading_of(FullFrame.data, isoformat(1))
    /\ response.data = last_reading

\* C20: the data request answers with the rows of the log whose
\* timestamp_received is in [start_date, end_date] (an absent date does not
\* bound), oldest first, cut to the last limit of them when a limit is given,
\* whether pd.read_csv or the fallback reader has read the file.
C20_GetReadings ==
    [][ \A limit \in Limits, start_date \in DateArgs, end_date \in DateArgs,
           pandas_ok \in BOOLEAN :
            (get_data(limit, start_date, end_date, pandas_ok)
                /\ (limit = NoArg \/ limit.int >= 0)) =>
                LET rows == [i \in 1..(Len(csv_file) - 1) |-> csv_file[i + 1]]
                    in_range(row) ==
                        /\ start_date = NoArg
                              \/ row.timestamp_received.iso >= start_date.iso
                        /\ end_date = NoArg
                              \/ row.timestamp_received.iso <= end_date.iso
                    dated == SelectSeq(rows, in_range)
                    n == Len(dated)
                IN  response'.data =
                        IF limit = NoArg \/ limit.int >= n THEN dated
                        ELSE SubSeq(dated, n - limit.int + 1, n) ]_vars

\* C21: while the log file does not exist, the data request answers success
\* with no rows and total 0, and the statistics request answers success with
\* total_readings 0 and every statistic absent; neither answers an error.
C21_AbsentLogIsEmptySuccess ==
    [][ ~csv_exists =>
            /\ (\E limit \in RawLimits, start_date \in RawDates, end_date \in RawDates,
                   pandas_ok \in BOOLEAN :
                       get_data(limit, start_date, end_date, pandas_ok))
                  => (response'.code = 200 /\ response'.data = << >>
                         /\ response'.total = 0)
            /\ (\E pandas_ok \in BOOLEAN : get_statistics(pandas_ok))
                  => /\ response'.code = 200
                     /\ response'.data.total_readings = 0
                     /\ \A field \in StatFields :
                            response'.data[field] = [min |-> None, max |-> None,
                                                     avg |-> None] ]_vars

\* The statistics request has answered and there is no log file.
C21_Witness ==
    /\ ~csv_exists
    /\ response.op = "stats"
    /\ response.code = 200
    /\ response.data.total_readings = 0

\* C22: the statistics request answers success, and every field with no
\* numeric sample in the log (only a header, every value blank, or no such
\* column) has min, max and avg absent.
C22_ZeroSamplesAbsent ==
    [][ (\E pandas_ok \in BOOLEAN : get_statistics(pandas_ok)) =>
            /\ response'.code = 200
            /\ \A field \in StatFields :
                  ({i \in 2..Len(csv_file) :
                        field \in CsvColumns /\ csv_file[i][field] # ""} = {})
                     => response'.data[field] = [min |-> None, max |-> None,
                                                 avg |-> None] ]_vars

\* C23: the statistics request reports total_readings equal to the number
\* of rows of the log, and first_reading and last_reading equal to the
\* timestamp_received of its first and its last row (absent without rows),
\* whatever the session's own counter of readings is.
C23_StatisticsOverTheLog ==
    [][ (\E pandas_ok \in BOOLEAN : get_statistics(pandas_ok)) =>
            LET n == IF csv_exists THEN Len(csv_file) - 1 ELSE 0
            IN  /\ response'.code = 200
                /\ response'.data.total_readings = n
                /\ response'.data.first_reading =
                      IF n = 0 THEN None ELSE csv_file[2].timestamp_received
                /\ response'.data.last_reading =
                      IF n = 0 THEN None ELSE csv_file[n + 1].timestamp_received ]_vars

\* C24: a data request with a malformed parameter (a limit that is no
\* integer, a start or end date that is no timestamp) is answered with an
\* error and no rows, never with rows.
C24_MalformedFilterRejected ==
    [][ \A limit \in RawLimits, start_date \in RawDates, end_date \in RawDates,
           pandas_ok \in BOOLEAN :
            (get_data(limit, start_date, end_date, pandas_ok)
                /\ Malformed \in {limit, start_date, end_date})
                => response'.code # 200 ]_vars

\* C25: no query (status, data, latest reading, statistics), answered with
\* success or with an error, changes is_recording, is_connected, start_time,
\* total_readings, last_reading or the log file: a step that changes one
\* of them is not a query.
C25_QueriesChangeNothing ==
    [][ \/ UNCHANGED << is_recording, is_connected, start_time, total_readings,
                        last_reading, csv_exists, csv_file >>
        \/ ~Queries ]_vars

\* A query has been answered with an error while the session records and
\* has a reading.
C25_Witness ==
    /\ response.op \in {"data", "stats"}
    /\ response.code = 500
    /\ is_recording
    /\ is_connected
    /\ total_readings = 1
    /\ last_reading # None

\* C26: total_readings never goes down and is never set back: every step
\* leaves it as it is, or adds 1 to it when on_message has accepted a
\* reading; start, stop, a new start, connection loss, reconnection and a
\* frame that fails leave it as it is.
C26_TotalReadingsMonotonic ==
    [][ \/ total_readings' = total_readings
        \/ /\ total_readings' = total_readings + 1
           /\ msgpc = "stored"
           /\ msgpc' = "idle" ]_vars

\* A new start has been accepted after a reading was counted, and the
\* count is still there.
C26_Witness ==
    /\ response = Pending
    /\ ~is_recording
    /\ total_readings >= 1
    /\ Len(csv_file) >= 2

\* C27: frames are accepted only while the session records: while
\* is_recording is false (before a start, between loop_start and the moment
\* connect_and_start sets is_recording, after a stop) no step of on_message
\* adds to total_readings, changes last_reading or appends a row.
C27_AcceptedOnlyWhileRecording ==
    [][ (~is_recording /\ msgpc' # msgpc) =>
            UNCHANGED << total_readings, last_reading, csv_file >> ]_vars

\* C28: in the serial plotter, while the worker runs without an open handle,
\* a connect attempt that fails signals an error and sends the worker to
\* its 5 s sleep; from the sleep it goes back to the test of the loop, from
\* there, while running is set, to the test of the handle, and from there,
\* the handle still not open, to the next attempt.  The worker leaves the
\* loop only when running has been cleared (stop was called).
C28_ConnectRetriedUntilStop ==
    [][ /\ (wpc = "connecting" /\ wpc' \notin {wpc, "assigning"})
              => (error_occurred' = "Failed to connect" /\ wpc' = "backoff")
        /\ (wpc = "backoff" /\ wpc' # wpc) => wpc' = "test"
        /\ (wpc = "test" /\ running /\ wpc' # wpc) => wpc' = "poll"
        /\ (wpc = "poll" /\ serial_connection # "open" /\ wpc' # wpc)
              => wpc' = "connecting"
        /\ (wpc # "exited" /\ wpc' = "exited") => ~running ]_vars

\* The worker has failed to connect, has slept, and is at its next attempt;
\* the window has sent no command and has not stopped the worker.
C28_Witness ==
    /\ wpc = "connecting"
    /\ error_occurred = "Failed to connect"
    /\ command_result = "none"
    /\ running
    /\ serial_connection = "none"

\* C29: once stop() has returned and the worker thread has left run, the
\* serial handle is not open, however the steps of stop() and of the worker
\* interleave.
C29_HandleReleasedAfterStop ==
    (~running /\ gui.at \in {"wait", "closed"} /\ wpc = "exited")
        => serial_connection # "open"

\* C30: once stop() has cleared running, the worker thread leaves run,
\* wherever it was (at the handle test, in connect_serial, in the 5 s
\* backoff, reading, in the sleep after an I/O error), so worker.wait()
\* does not block for ever.
C30_WorkerTerminatesAfterStop ==
    (~running) ~> (wpc = "exited")

\* The worker has left run after a stop that found it in the sleep that
\* follows an I/O error, and the window waits for it.
C30_Witness ==
    /\ wpc = "exited"
    /\ ~running
    /\ gui.at = "wait"
    /\ error_occurred = "Serial communication error"

C32_OnlyMeasurementsBuffered ==
    [][ \A line \in SerialLines, t \in SessionTimes :
            run_line(line, t) =>
                /\ wpc' = "pause"
                /\ running' = running
                /\ IF /\ line.head = "{"
                      /\ line.closed
                      /\ line.json.syntax = "object"
                      /\ "temperature" \in DOMAIN line.json.data
                      THEN /\ data_buffer' # data_buffer
                           /\ data_received' = Append(data_received,
                                                      data_buffer'[Len(data_buffer')])
                      ELSE UNCHANGED << data_buffer, data_received >> ]_vars

\* A reading was buffered and emitted, and a status line was then taken
\* without a change to the buffer.
C32_Witness ==
    /\ wpc = "pause"
    /\ status_received = "cooler on"
    /\ Len(data_buffer) = 1
    /\ data_buffer = data_received
    /\ "temperature" \in DOMAIN data_buffer[1]

\* C38: a line of the serial link that starts with "ERROR:" makes the worker
\* emit error_occurred with the text after the prefix.
C38_ErrorLineSignalled ==
    [][ \A line \in SerialLines, t \in SessionTimes :
            (run_line(line, t) /\ line.head = "ERROR:")
                => error_occurred' = line.body ]_vars

\* C33: on the message bus, a frame that is a JSON object without any
\* measurement member (an acknowledgement) is ignored: no step of on_message
\* working on it changes last_reading or total_readings or appends a row.
C33_AcknowledgementIgnored ==
    [][ (msgpc' # msgpc /\ AckFrame.data \in {cur.data, cur'.data})
            => UNCHANGED << last_reading, total_readings, csv_file >> ]_vars

\* C34: a send on the serial port that fails is signalled as an error and
\* answered with False, and is not made again: when the write raises, the
\* call leaves the wire as it was, signals "Failed to send command" and
\* returns False; when the port cannot be opened for the send, the call
\* signals "Failed to connect" and returns False; and no step of a call
\* puts more than one line on the wire.
C34_FailedSendReportedOnce ==
    [][ /\ \A command \in CommandLines, port_ok \in BOOLEAN :
              (serial_connection = "open"
                  /\ send_at_command(command, port_ok, FALSE)) =>
                  /\ wire' = wire
                  /\ command_result' = "False"
                  /\ error_occurred' = "Failed to send command"
        /\ send_assign(FALSE) =>
              /\ wire' = wire
              /\ command_result' = "False"
              /\ error_occurred' = "Failed to send command"
        /\ \A command \in CommandLines, write_ok \in BOOLEAN :
              (serial_connection # "open"
                  /\ send_at_command(command, FALSE, write_ok)) =>
                  /\ wire' = wire
                  /\ command_result' = "False"
                  /\ error_occurred' = "Failed to connect"
        /\ Len(wire') <= Len(wire) + 1 ]_vars

\* A command was written, and the next one failed at its write over the
\* open handle: it is not on the wire.
C34_Witness ==
    /\ Len(wire) = 1
    /\ command_result = "False"
    /\ error_occurred = "Failed to send command"
    /\ serial_connection = "open"
    /\ gui = Idle

\* C39: however the worker thread's connect_serial and the connect_serial
\* of a command sent by the window interleave, at most one handle on the
\* serial port is open at any time, and, outside the assignment of a handle
\* just opened, the open handle is the one serial_connection refers to.
C39_OneHandleReferenced ==
    /\ handles <= 1
    /\ (wpc # "assigning" /\ gui.at # "assigning")
          => handles = IF serial_connection = "open" THEN 1 ELSE 0

\* C35: when start_recording answers "Recording started successfully", the
\* session is recording (is_recording is set) or the connect of its thread
\* is still in progress; it does not answer success for a start whose
\* connect has failed and left is_recording cleared.
C35_SuccessMeansRecording ==
    [][ \A th \in ThreadStates :
            start_returns(th) =>
                (is_recording' \/ th \in {"connecting", "started"}) ]_vars

\* C36: the snapshot get_status answers is consistent: its last_reading is
\* the reading its total_readings counts last, so it holds a last_reading
\* exactly when its count is not zero, and never a reading that is not yet
\* counted.
C36_StatusSnapshotConsistent ==
    response.op = "status" =>
        /\ (response.data.last_reading = None) <=> (response.data.total_readings = 0)
        /\ response.data.total_readings <= total_readings

\* C37: with on_message at rest and the last accepted reading written, the
\* last row of the log carries the timestamp_received of last_reading and,
\* in its other columns, the members of last_reading they are written from
\* (timestamp_device from timestamp), or the default of the column when the
\* reading has no such member.  The write of a reading establishes this,
\* and it stays so while on_message is at rest and the recorder is not
\* built anew.
C37_LastReadingIsLastRow ==
    [][ LET member(column) ==
                IF column = "timestamp_device" THEN "timestamp" ELSE column
            row_of(reading, log) ==
                /\ reading # None
                /\ Len(log) >= 2
                /\ log[Len(log)]["timestamp_received"] = reading["timestamp_received"]
                /\ \A column \in CsvColumns \ {"timestamp_received"} :
                      IF member(column) \in DOMAIN reading
                          THEN log[Len(log)][column] = reading[member(column)]
                          ELSE log[Len(log)][column] =
                                   IF column = "device" THEN "unknown" ELSE ""
        IN  /\ (msgpc = "stored" /\ msgpc' = "idle" /\ csv_file' # csv_file)
                  => row_of(last_reading', csv_file')
            /\ (msgpc # "stored" /\ msgpc' = "idle" /\ last_reading' # None
                    /\ row_of(last_reading, csv_file))
                  => row_of(last_reading', csv_file') ]_vars

\* Two readings were accepted and written, the last one with measurements,
\* and its row is the last of the log; on_message is at rest.
C37_Witness ==
    /\ msgpc = "idle"
    /\ total_readings = 2
    /\ Len(csv_file) >= 3
    /\ last_reading # None
    /\ "temperature" \in DOMAIN last_reading
    /\ csv_file[Len(csv_file)]["timestamp_received"] = last_reading["timestamp_received"]
    /\ csv_file[Len(csv_file)]["temperature"] = last_reading["temperature"]

\* C40: the four plot series (time, temperature, humidity, pressure) have
\* the same length, of at most max_points points, after process_new_data,
\* refresh_plots and clear_data, also when a reading carries a measurement
\* that is null or no number.
C40_SeriesAligned ==
    /\ Len(temperature_data) = Len(time_data)
    /\ Len(humidity_data) = Len(time_data)
    /\ Len(pressure_data) = Len(time_data)
    /\ Len(time_data) <= max_points

=============================================================================
